---- MODULE Spec2Model ----
(***************************************************************************)
(* SmartScale: asynchronous inference job pipeline.                        *)
(*                                                                         *)
(*   api/main.py          predict, result, confirm_label, reload_model     *)
(*   worker/worker_tasks  classify (one Celery task per queue message)     *)
(*   worker/model_loader  ensure_model and the process-wide MODEL_STATE    *)
(*                                                                         *)
(* Rows of inference_requests and model_registry are database state; the   *)
(* broker queue delivers at least once; each worker process owns one       *)
(* MODEL_STATE dict shared by the task threads of that process.            *)
(* Nullable columns are modelled as sequences: <<>> is NULL, <<v>> is v.   *)
(* Prices are in cents, weights in whole kg, probabilities in percent.     *)
(***************************************************************************)
EXTENDS Integers, Sequences, FiniteSets, Bags, TLC

-----------------------------------------------------------------------------
(* Bounds of the model *)

\* Submissions accepted: in the worker pool scenario (Spec) and in the job
\* store scenario (SpecStore).
MaxJobs == 1
MaxJobsStore == 2
\* Deliveries the broker makes in all, redeliveries included: in Spec and
\* SpecStore, and in the model cache scenario (SpecCache).
MaxDeliveries == 2
MaxDeliveriesCache == 3
\* The clock stops advancing at this value.
MaxClock == 1

-----------------------------------------------------------------------------
(* Nullable values *)

None == <<>>
Some(v) == <<v>>

-----------------------------------------------------------------------------
(* Environment: configuration, model hub, price table *)

\* MODEL_ID stands for the default repository "Adriana213/vgg16-fruit-classifier".
MODEL_ID == "vgg16"
MODEL_REVISION == "main"
ADMIN_TOKEN == "changeme"
DEFAULT_PRICE_PER_KG == 299
TopKCap == 5

ModelIds == {"vgg16", "other"}
Revisions == {"main", "v2"}
Identities == [model_id : ModelIds, model_revision : Revisions]
Ident(m, r) == [model_id |-> m, model_revision |-> r]

\* Repositories snapshot_download can fetch; any other target raises.
Hub == {i \in Identities : i.model_id = "vgg16"}

\* Content of class_labels.json in each snapshot: a set of <<index, label>>
\* pairs, or None when the snapshot has no such file. The file of revision v2
\* has no entry for index 1 and an empty label for index 0.
LabelFile(ident) ==
    IF ident = Ident("vgg16", "main")
    THEN Some({<<0, "apple">>, <<1, "banana">>, <<2, "cherry">>})
    ELSE IF ident = Ident("vgg16", "v2") THEN Some({<<0, "">>, <<2, "cherry">>})
    ELSE None

\* The opaque model: probability vector (percent) for a decoded image;
\* position i+1 holds the probability of class index i. Revision main has
\* three classes; revision v2 has six, two of them equally probable.
ModelPredict(handle, image) ==
    IF handle = Ident("vgg16", "main") THEN <<10, 70, 20>>
    ELSE IF handle = Ident("vgg16", "v2") THEN <<30, 30, 20, 10, 6, 4>>
    ELSE <<100, 0, 0>>

\* Rows of product_prices.
PriceTable == {<<"apple", 150>>, <<"banana", 120>>}

EmptyImage == "empty"
CorruptImage == "corrupt"
GoodImage == "fruit.jpg"

\* Submissions tried: <<image, weight_kg, top_k>>.
Submissions ==
    {<<GoodImage, None, 2>>, <<GoodImage, Some(2), 6>>, <<CorruptImage, Some(2), 2>>,
     <<EmptyImage, None, 2>>, <<GoodImage, Some(0), 2>>, <<GoodImage, None, 0>>}
ConfirmLabels == {"banana", "kiwi"}

\* Reload requests tried: <<X-Admin-Token, payload.model_id, payload.model_revision>>.
ReloadRequests ==
    {<<"guess", Some("other"), None>>, <<ADMIN_TOKEN, None, None>>,
     <<ADMIN_TOKEN, None, Some("main")>>, <<ADMIN_TOKEN, Some("vgg16"), None>>,
     <<ADMIN_TOKEN, Some("vgg16"), Some("v2")>>, <<ADMIN_TOKEN, Some("other"), Some("main")>>}
Latencies == {12}

JobIds == 1..MaxJobsStore

\* Task threads and worker processes. A deployment either runs both task
\* threads in one worker process or one in each of two processes.
Threads == {"t1", "t2"}
Procs == {"p1", "p2"}
Deployments == {[t \in Threads |-> "p1"], [t \in Threads |-> IF t = "t1" THEN "p1" ELSE "p2"]}

-----------------------------------------------------------------------------
VARIABLES
    jobs,        \* inference_requests: job id -> row, for the ids that have a row
    registry,    \* model_registry row id = 1: Some(row), or None when absent
    sending,     \* requests that committed their row and have not yet sent the task
    queue,       \* broker queue: bag of messages [job_id, top_k]
    deliveries,  \* number of deliveries the broker has made
    MODEL_STATE, \* per worker process: the module-level dict of model_loader
    wk,          \* per task thread: position in classify and its local variables
    clock,       \* wall clock read by datetime.now() in ensure_model
    procOf       \* the worker process each task thread runs in (fixed at start)

vars == <<jobs, registry, sending, queue, deliveries, MODEL_STATE, wk, clock, procOf>>

-----------------------------------------------------------------------------
(* model_loader.py *)

\* MODEL_STATE as the module defines it, before any load.
EmptyState ==
    [model_id |-> None, model_revision |-> None, model |-> None,
     labels |-> None, model_path |-> None, loaded_at |-> None]

\* _fetch_registry / _fetch_model_registry: the row, or the configured default.
FetchRegistry(reg) ==
    IF reg = None THEN Ident(MODEL_ID, MODEL_REVISION) ELSE reg[1]

RECURSIVE SortedLabels(_)
\* sorted(data.items(), key=int(index)), then the labels alone.
SortedLabels(items) ==
    IF items = {} THEN <<>>
    ELSE LET lo == CHOOSE p \in items : \A q \in items : p[1] <= q[1]
         IN <<lo[2]>> \o SortedLabels(items \ {lo})

\* _load_labels: None when the file is absent, else the label list.
LoadLabels(ident) ==
    IF LabelFile(ident) = None THEN None ELSE Some(SortedLabels(LabelFile(ident)[1]))

\* What _load_model returns for a target the hub can serve: the handle
\* remembers the snapshot it was built from.
LoadModel(target) ==
    [model |-> Some(target), labels |-> LoadLabels(target), model_path |-> Some(target)]

\* MODEL_STATE.update({...}) of ensure_model.
UpdatedState(target, loaded, now) ==
    [model_id |-> Some(target.model_id), model_revision |-> Some(target.model_revision),
     model |-> loaded.model, labels |-> loaded.labels,
     model_path |-> loaded.model_path, loaded_at |-> Some(now)]

-----------------------------------------------------------------------------
(* worker_tasks.py: the executor and the pricing of classify *)

Min2(a, b) == IF a < b THEN a ELSE b
Max2(a, b) == IF a > b THEN a ELSE b

\* Mutant of ClampK: the cap of 5 is missing.
ClampKNoCap(top_k, L) == Max2(1, Min2(top_k, L))

\* k = max(1, min(int(top_k), 5, len(probs)))
ClampK(top_k, L) == Max2(1, Min2(top_k, Min2(TopKCap, L)))

\* np.argsort(probs): the orders of the class indices 0..L-1 that put the
\* probabilities in ascending order. The default sort kind is not stable, so
\* equal probabilities may come out in either order.
ArgSorts(probs) ==
    LET L == Len(probs)
    IN {p \in [1..L -> 0..(L - 1)] :
           /\ \A i, j \in 1..L : i # j => p[i] # p[j]
           /\ \A i \in 1..(L - 1) : probs[p[i] + 1] <= probs[p[i + 1] + 1]}

\* order[::-1][:k]
Selected(order, k) == [i \in 1..k |-> order[Len(order) + 1 - i]]

\* labels[int(idx)] if int(idx) < len(labels) else str(idx)
LabelOf(labels, idx) == IF idx < Len(labels) THEN labels[idx + 1] ELSE ToString(idx)

\* top_k_list built by the loop over indices.tolist()
TopKList(probs, labels, indices) ==
    [i \in 1..Len(indices) |->
        [label |-> LabelOf(labels, indices[i]), confidence |-> probs[indices[i] + 1]]]

\* SELECT price_per_kg FROM product_prices WHERE label = :label, else the default
PricePerKg(label) ==
    IF \E p \in PriceTable : p[1] = label
    THEN (CHOOSE p \in PriceTable : p[1] = label)[2]
    ELSE DEFAULT_PRICE_PER_KG

\* The values classify computes between model.predict and the final UPDATE.
Outcome(probs, labels, order, top_k, weight_kg) ==
    LET k == ClampK(top_k, Len(probs))
        top_k_list == TopKList(probs, labels, Selected(order, k))
        predicted_label == IF top_k_list # <<>> THEN Some(top_k_list[1].label) ELSE None
        confidence == IF top_k_list # <<>> THEN Some(top_k_list[1].confidence) ELSE None
        priced == predicted_label # None /\ predicted_label # Some("") /\ weight_kg # None
        price == IF priced THEN PricePerKg(predicted_label[1]) ELSE 0
    IN [predicted_label |-> predicted_label,
        confidence |-> confidence,
        top_k |-> Some(top_k_list),
        price_per_kg |-> IF priced THEN Some(price) ELSE None,
        total_price |-> IF priced THEN Some(price * weight_kg[1]) ELSE None]

-----------------------------------------------------------------------------
(* api/main.py *)


\* The row predict inserts.
QueuedRow(image, weight_kg, model_info) ==
    [status |-> "queued", image |-> image, weight_kg |-> weight_kg,
     model_id |-> Some(model_info.model_id),
     model_revision |-> Some(model_info.model_revision),
     predicted_label |-> None, confidence |-> None, top_k |-> None,
     price_per_kg |-> None, total_price |-> None, latency_ms |-> None,
     error |-> None, confirmed_label |-> None]

\* str(uuid.uuid4()): an id no row has yet.
FreshId == Cardinality(DOMAIN jobs) + 1

Message(job_id, top_k) == [job_id |-> job_id, top_k |-> top_k]

\* Mutant of Predict: the empty payload is detected only after the INSERT.
PredictChecksImageLate(image, weight_kg, top_k) ==
    IF top_k < 1
    THEN UNCHANGED vars
    ELSE IF weight_kg # None /\ weight_kg[1] <= 0
    THEN UNCHANGED vars
    ELSE /\ jobs' = (FreshId :> QueuedRow(image, weight_kg, FetchRegistry(registry))) @@ jobs
         /\ sending' = IF image = EmptyImage THEN sending
                       ELSE sending \cup {Message(FreshId, top_k)}
         /\ UNCHANGED <<registry, queue, deliveries, MODEL_STATE, wk, clock, procOf>>

\* POST /v1/predict up to db.commit(): validation (each failure raises
\* HTTPException 400 before anything is written), then the INSERT.
Predict(image, weight_kg, top_k) ==
    IF top_k < 1
    THEN UNCHANGED vars
    ELSE IF weight_kg # None /\ weight_kg[1] <= 0
    THEN UNCHANGED vars
    ELSE IF image = EmptyImage
    THEN UNCHANGED vars
    ELSE /\ jobs' = (FreshId :> QueuedRow(image, weight_kg, FetchRegistry(registry))) @@ jobs
         /\ sending' = sending \cup {Message(FreshId, top_k)}
         /\ UNCHANGED <<registry, queue, deliveries, MODEL_STATE, wk, clock, procOf>>

\* Mutant of PredictSend: the task is published twice.
PredictSendTwice(m, accepted) ==
    /\ m \in sending
    /\ sending' = sending \ {m}
    /\ queue' = IF accepted THEN queue (+) SetToBag({m}) (+) SetToBag({m}) ELSE queue
    /\ UNCHANGED <<jobs, registry, deliveries, MODEL_STATE, wk, clock, procOf>>

\* celery_app.send_task(...); the broker may refuse the task, and the
\* request then ends in an unhandled exception.
PredictSend(m, accepted) ==
    /\ m \in sending
    /\ sending' = sending \ {m}
    /\ queue' = IF accepted THEN queue (+) SetToBag({m}) ELSE queue
    /\ UNCHANGED <<jobs, registry, deliveries, MODEL_STATE, wk, clock, procOf>>

\* What GET /v1/result/{job_id} returns: None stands for HTTPException 404,
\* else the snapshot, with the prediction only for a done job.
ResultResponse(job_id) ==
    IF job_id \notin DOMAIN jobs THEN None
    ELSE LET row == jobs[job_id]
         IN Some([status |-> row.status,
                  prediction |-> IF row.status = "done"
                                 THEN Some([predicted_label |-> row.predicted_label,
                                            confidence |-> row.confidence,
                                            top_k |-> row.top_k,
                                            price_per_kg |-> row.price_per_kg,
                                            total_price |-> row.total_price,
                                            confirmed_label |-> row.confirmed_label])
                                 ELSE None,
                  error |-> row.error])

\* GET /v1/result/{job_id}: a SELECT, then 404 or the snapshot.
Result(job_id) ==
    UNCHANGED vars

\* What POST /v1/confirm/{job_id} returns: None stands for HTTPException 404.
ConfirmResponse(job_id, confirmed_label) ==
    IF job_id \notin DOMAIN jobs THEN None
    ELSE Some([status |-> "ok", job_id |-> job_id, confirmed_label |-> confirmed_label])

\* Mutant of ConfirmLabel: a confirmation for an unknown id inserts a row.
ConfirmLabelUpserts(job_id, confirmed_label) ==
    IF job_id \in DOMAIN jobs
    THEN /\ jobs' = [jobs EXCEPT ![job_id].confirmed_label = Some(confirmed_label)]
         /\ UNCHANGED <<registry, sending, queue, deliveries, MODEL_STATE, wk, clock, procOf>>
    ELSE /\ jobs' = (job_id :> [QueuedRow(GoodImage, None, FetchRegistry(registry))
                                    EXCEPT !.confirmed_label = Some(confirmed_label)]) @@ jobs
         /\ UNCHANGED <<registry, sending, queue, deliveries, MODEL_STATE, wk, clock, procOf>>

\* Mutant of ConfirmLabel: the correction also overwrites the prediction.
ConfirmLabelOverwrites(job_id, confirmed_label) ==
    IF job_id \in DOMAIN jobs
    THEN /\ jobs' = [jobs EXCEPT ![job_id].confirmed_label = Some(confirmed_label),
                                 ![job_id].predicted_label = Some(confirmed_label)]
         /\ UNCHANGED <<registry, sending, queue, deliveries, MODEL_STATE, wk, clock, procOf>>
    ELSE UNCHANGED vars

\* POST /v1/confirm/{job_id}: UPDATE ... RETURNING id; 404 when no row matched.
ConfirmLabel(job_id, confirmed_label) ==
    IF job_id \in DOMAIN jobs
    THEN /\ jobs' = [jobs EXCEPT ![job_id].confirmed_label = Some(confirmed_label)]
         /\ UNCHANGED <<registry, sending, queue, deliveries, MODEL_STATE, wk, clock, procOf>>
    ELSE UNCHANGED vars

\* Mutant of ReloadModel: the reload also evicts the workers' cached models.
ReloadModelEvictsCache(x_admin_token, payload_id, payload_revision) ==
    IF x_admin_token # ADMIN_TOKEN
    THEN UNCHANGED vars
    ELSE LET current == FetchRegistry(registry)
             model_id == IF payload_id # None THEN payload_id[1] ELSE current.model_id
             model_revision == IF payload_revision # None THEN payload_revision[1]
                               ELSE current.model_revision
         IN IF registry = None
            THEN UNCHANGED vars
            ELSE /\ registry' = Some(Ident(model_id, model_revision))
                 /\ MODEL_STATE' = [p \in Procs |-> EmptyState]
                 /\ UNCHANGED <<jobs, sending, queue, deliveries, wk, clock, procOf>>

\* POST /v1/admin/reload-model; the payload fields are None or Some(string).
\* With no registry row the UPDATE matches nothing and row["model_id"] raises.
ReloadModel(x_admin_token, payload_id, payload_revision) ==
    IF x_admin_token # ADMIN_TOKEN
    THEN UNCHANGED vars
    ELSE LET current == FetchRegistry(registry)
             model_id == IF payload_id # None THEN payload_id[1] ELSE current.model_id
             model_revision == IF payload_revision # None THEN payload_revision[1]
                               ELSE current.model_revision
         IN IF registry = None
            THEN UNCHANGED vars
            ELSE /\ registry' = Some(Ident(model_id, model_revision))
                 /\ UNCHANGED <<jobs, sending, queue, deliveries, MODEL_STATE, wk, clock, procOf>>

-----------------------------------------------------------------------------
(* worker_tasks.py: classify, one step per access to shared state *)

\* A task thread between two tasks.
Idle ==
    [pc |-> "idle", job_id |-> 0, top_k |-> 0, row |-> None, target |-> None,
     model |-> None, out |-> None, model_id |-> None, exc |-> ""]

Goto(t, label) == wk' = [wk EXCEPT ![t].pc = label]

\* Idle task threads of one process are interchangeable: the broker's message
\* goes to the first of them.
FirstIdle(t) ==
    \A u \in Threads : (u = "t1" /\ t = "t2" /\ procOf[u] = procOf[t]) => wk[u].pc # "idle"

\* The broker hands a message to a free task thread. A delivery whose
\* acknowledgement is lost leaves the message in the queue (at-least-once).
\* classify then runs SELECT image_path, weight_kg ... and returns when there
\* is no row (the row's image and weight never change once inserted).
Deliver(t, m, acked) ==
    /\ wk[t].pc = "idle"
    /\ FirstIdle(t)
    /\ BagIn(m, queue)
    /\ deliveries' = deliveries + 1
    /\ queue' = IF acked THEN queue (-) SetToBag({m}) ELSE queue
    /\ IF m.job_id \in DOMAIN jobs
       THEN wk' = [wk EXCEPT ![t] =
                     [Idle EXCEPT !.pc = "mark", !.job_id = m.job_id, !.top_k = m.top_k,
                                  !.row = Some([image |-> jobs[m.job_id].image,
                                                weight_kg |-> jobs[m.job_id].weight_kg])]]
       ELSE wk' = wk
    /\ UNCHANGED <<jobs, registry, sending, MODEL_STATE, clock, procOf>>

\* UPDATE inference_requests SET status = 'running' WHERE id = :id; commit.
MarkRunning(t) ==
    /\ wk[t].pc = "mark"
    /\ jobs' = [jobs EXCEPT ![wk[t].job_id].status = "running"]
    /\ Goto(t, "fetch")
    /\ UNCHANGED <<registry, sending, queue, deliveries, MODEL_STATE, clock, procOf>>

\* ensure_model: target = _fetch_registry(db)
EnsureFetch(t) ==
    /\ wk[t].pc = "fetch"
    /\ wk' = [wk EXCEPT ![t].pc = "chk_model", ![t].target = Some(FetchRegistry(registry))]
    /\ UNCHANGED <<jobs, registry, sending, queue, deliveries, MODEL_STATE, clock, procOf>>

\* Mutant of EnsureCheck: every call loads the target anew.
EnsureCheckAlwaysLoads(t) ==
    /\ wk[t].pc \in {"chk_model", "chk_id", "chk_rev"}
    /\ Goto(t, "loading")
    /\ UNCHANGED <<jobs, registry, sending, queue, deliveries, MODEL_STATE, clock, procOf>>

\* Mutant of EnsureCheck: any cached model is served, whatever its identity.
EnsureCheckAnyModel(t) ==
    /\ wk[t].pc \in {"chk_model", "chk_id", "chk_rev"}
    /\ Goto(t, IF MODEL_STATE[procOf[t]].model = None THEN "loading" ELSE "get_model")
    /\ UNCHANGED <<jobs, registry, sending, queue, deliveries, MODEL_STATE, clock, procOf>>

\* ensure_model: the three reads of MODEL_STATE in the if-condition, in
\* order; the first that holds starts _load_model.
EnsureCheck(t) ==
    LET state == MODEL_STATE[procOf[t]]
        target == wk[t].target[1]
    IN /\ wk[t].pc \in {"chk_model", "chk_id", "chk_rev"}
       /\ IF wk[t].pc = "chk_model"
          THEN Goto(t, IF state.model = None THEN "loading" ELSE "chk_id")
          ELSE IF wk[t].pc = "chk_id"
          THEN Goto(t, IF state.model_id # Some(target.model_id) THEN "loading" ELSE "chk_rev")
          ELSE Goto(t, IF state.model_revision # Some(target.model_revision)
                       THEN "loading" ELSE "get_model")
       /\ UNCHANGED <<jobs, registry, sending, queue, deliveries, MODEL_STATE, clock, procOf>>

\* Mutant of LoadFinish: a failed load drops the cached entry.
LoadFinishDropsEntry(t, ok) ==
    LET target == wk[t].target[1]
    IN /\ wk[t].pc = "loading"
       /\ IF ok /\ target \in Hub
          THEN /\ MODEL_STATE' = [MODEL_STATE EXCEPT ![procOf[t]] =
                                     UpdatedState(target, LoadModel(target), clock)]
               /\ clock' = Min2(clock + 1, MaxClock)
               /\ Goto(t, "get_model")
          ELSE /\ wk' = [wk EXCEPT ![t].pc = "except", ![t].exc = "model unavailable"]
               /\ MODEL_STATE' = [MODEL_STATE EXCEPT ![procOf[t]] = EmptyState]
               /\ UNCHANGED clock
       /\ UNCHANGED <<jobs, registry, sending, queue, deliveries, procOf>>

\* ensure_model: _load_model returns and MODEL_STATE.update(...) runs, or
\* _load_model raises (always for a target the hub does not have).
LoadFinish(t, ok) ==
    LET target == wk[t].target[1]
    IN /\ wk[t].pc = "loading"
       /\ IF ok /\ target \in Hub
          THEN /\ MODEL_STATE' = [MODEL_STATE EXCEPT ![procOf[t]] =
                                     UpdatedState(target, LoadModel(target), clock)]
               /\ clock' = Min2(clock + 1, MaxClock)
               /\ Goto(t, "get_model")
          ELSE /\ wk' = [wk EXCEPT ![t].pc = "except", ![t].exc = "model unavailable"]
               /\ UNCHANGED <<MODEL_STATE, clock>>
       /\ UNCHANGED <<jobs, registry, sending, queue, deliveries, procOf>>

\* model = state["model"], where state is the MODEL_STATE dict itself.
ReadModel(t) ==
    /\ wk[t].pc = "get_model"
    /\ wk' = [wk EXCEPT ![t].pc = "infer", ![t].model = MODEL_STATE[procOf[t]].model]
    /\ UNCHANGED <<jobs, registry, sending, queue, deliveries, MODEL_STATE, clock, procOf>>

\* labels = state["labels"] or []; load_img; model.predict; top-k; pricing.
Infer(t, order) ==
    LET state == MODEL_STATE[procOf[t]]
        labels == IF state.labels = None THEN <<>> ELSE state.labels[1]
        row == wk[t].row[1]
        probs == ModelPredict(wk[t].model[1], row.image)
    IN /\ wk[t].pc = "infer"
       /\ IF row.image = CorruptImage
          THEN /\ order = <<>>
               /\ wk' = [wk EXCEPT ![t].pc = "except", ![t].exc = "cannot identify image file"]
          ELSE /\ order \in ArgSorts(probs)
               /\ wk' = [wk EXCEPT ![t].pc = "bind_id",
                                   ![t].out = Some(Outcome(probs, labels, order,
                                                           wk[t].top_k, row.weight_kg))]
       /\ UNCHANGED <<jobs, registry, sending, queue, deliveries, MODEL_STATE, clock, procOf>>

\* Building the parameters of the final UPDATE: "model_id": state["model_id"]
BindId(t) ==
    /\ wk[t].pc = "bind_id"
    /\ wk' = [wk EXCEPT ![t].pc = "write_done", ![t].model_id = MODEL_STATE[procOf[t]].model_id]
    /\ UNCHANGED <<jobs, registry, sending, queue, deliveries, MODEL_STATE, clock, procOf>>

\* "model_revision": state["model_revision"], then UPDATE ... SET status =
\* 'done', ... WHERE id = :id; commit.
WriteDone(t, latency_ms) ==
    LET out == wk[t].out[1]
    IN /\ wk[t].pc = "write_done"
       /\ jobs' = [jobs EXCEPT ![wk[t].job_id] =
                      [@ EXCEPT !.status = "done",
                                !.predicted_label = out.predicted_label,
                                !.confidence = out.confidence,
                                !.top_k = out.top_k,
                                !.price_per_kg = out.price_per_kg,
                                !.total_price = out.total_price,
                                !.latency_ms = Some(latency_ms),
                                !.model_id = wk[t].model_id,
                                !.model_revision = MODEL_STATE[procOf[t]].model_revision]]
       /\ wk' = [wk EXCEPT ![t] = Idle]
       /\ UNCHANGED <<registry, sending, queue, deliveries, MODEL_STATE, clock, procOf>>

\* Mutant of WriteError: the exception escapes classify and the row is left as it is.
WriteErrorEscapes(t) ==
    /\ wk[t].pc = "except"
    /\ wk' = [wk EXCEPT ![t] = Idle]
    /\ UNCHANGED <<jobs, registry, sending, queue, deliveries, MODEL_STATE, clock, procOf>>

\* except Exception: rollback; UPDATE ... SET status = 'error', error = :error; commit.
WriteError(t) ==
    /\ wk[t].pc = "except"
    /\ jobs' = [jobs EXCEPT ![wk[t].job_id] =
                   [@ EXCEPT !.status = "error", !.error = Some(wk[t].exc)]]
    /\ wk' = [wk EXCEPT ![t] = Idle]
    /\ UNCHANGED <<registry, sending, queue, deliveries, MODEL_STATE, clock, procOf>>

-----------------------------------------------------------------------------
(* The system *)

Init ==
    /\ jobs = << >>
    /\ registry \in {None, Some(Ident(MODEL_ID, MODEL_REVISION))}
    /\ sending = {}
    /\ queue = EmptyBag
    /\ deliveries = 0
    /\ MODEL_STATE = [p \in Procs |-> EmptyState]
    /\ wk = [t \in Threads |-> Idle]
    /\ clock = 0
    /\ procOf \in Deployments

Orders == {<<>>} \cup UNION {ArgSorts(ModelPredict(h, GoodImage)) : h \in Identities}

Accepting(limit) == Cardinality(DOMAIN jobs) < limit

\* The client-facing endpoints of the API process.
Api(limit) ==
    \/ \E sub \in Submissions : Accepting(limit) /\ Predict(sub[1], sub[2], sub[3])
    \/ \E m \in sending, accepted \in BOOLEAN : PredictSend(m, accepted)
    \/ \E job_id \in JobIds : Result(job_id)
    \/ \E job_id \in JobIds, label \in ConfirmLabels : ConfirmLabel(job_id, label)

\* The admin endpoint.
Admin == \E req \in ReloadRequests : ReloadModel(req[1], req[2], req[3])

Delivering(limit) == deliveries < limit

\* The steps of the task threads in pool.
Worker(pool, limit) ==
    \/ \E t \in pool, m \in BagToSet(queue), acked \in BOOLEAN :
          Delivering(limit) /\ Deliver(t, m, acked)
    \/ \E t \in pool : MarkRunning(t)
    \/ \E t \in pool : EnsureFetch(t)
    \/ \E t \in pool : EnsureCheck(t)
    \/ \E t \in pool, ok \in BOOLEAN : LoadFinish(t, ok)
    \/ \E t \in pool : ReadModel(t)
    \/ \E t \in pool, order \in Orders : Infer(t, order)
    \/ \E t \in pool : BindId(t)
    \/ \E t \in pool, latency_ms \in Latencies : WriteDone(t, latency_ms)
    \/ \E t \in pool : WriteError(t)

\* Worker pool scenario: two task threads, in one worker process or in two,
\* with admin reloads.
Next == Api(MaxJobs) \/ Admin \/ Worker(Threads, MaxDeliveries)

Spec == Init /\ [][Next]_vars

\* Job store scenario: several jobs, one task thread (celery worker
\* --concurrency=1), the registry left as it is.
InitStore == Init /\ procOf = [t \in Threads |-> "p1"]

NextStore == Api(MaxJobsStore) \/ Worker({"t1"}, MaxDeliveries)

SpecStore == InitStore /\ [][NextStore]_vars

\* The steps of classify on task thread t once it has its message.
Classify(t) ==
    \/ MarkRunning(t)
    \/ EnsureFetch(t)
    \/ EnsureCheck(t)
    \/ \E ok \in BOOLEAN : LoadFinish(t, ok)
    \/ ReadModel(t)
    \/ \E order \in Orders : Infer(t, order)
    \/ BindId(t)
    \/ \E latency_ms \in Latencies : WriteDone(t, latency_ms)
    \/ WriteError(t)

\* Progress scenario: submissions and one task thread that keeps being
\* scheduled, so that a task that can take a step eventually takes one.
NextLive ==
    \/ \E sub \in Submissions : Accepting(MaxJobsStore) /\ Predict(sub[1], sub[2], sub[3])
    \/ \E m \in sending, accepted \in BOOLEAN : PredictSend(m, accepted)
    \/ Worker({"t1"}, MaxDeliveries)

SpecLive == InitStore /\ [][NextLive]_vars /\ WF_vars(Classify("t1"))

\* Stray message scenario: the broker still holds a message for a job whose
\* row is not in the table (the queue and the table are separate stores).
StrayMessage == Message(MaxJobsStore, TopKCap)

InitStray ==
    /\ jobs = << >>
    /\ registry \in {None, Some(Ident(MODEL_ID, MODEL_REVISION))}
    /\ sending = {}
    /\ queue = SetToBag({StrayMessage})
    /\ deliveries = 0
    /\ MODEL_STATE = [p \in Procs |-> EmptyState]
    /\ wk = [t \in Threads |-> Idle]
    /\ clock = 0
    /\ procOf = [t \in Threads |-> "p1"]

NextStray == Api(MaxJobs) \/ Worker({"t1"}, MaxDeliveries)

SpecStray == InitStray /\ [][NextStray]_vars

\* Model cache scenario: one job redelivered to one task thread while the
\* admin changes the registry.
NextCache == Api(MaxJobs) \/ Admin \/ Worker({"t1"}, MaxDeliveriesCache)

SpecCache == InitStore /\ [][NextCache]_vars

-----------------------------------------------------------------------------
(* Properties *)

Others == <<registry, sending, queue, deliveries, MODEL_STATE, wk, clock, procOf>>

StatusSteps == {<<"queued", "running">>, <<"running", "done">>, <<"running", "error">>}

\* C1: the status of every job only ever moves queued -> running and
\* running -> done or error; it never skips running, never moves backward
\* and never leaves done or error.
C1_StatusPrefix ==
    [][\A j \in DOMAIN jobs :
          jobs'[j].status # jobs[j].status => <<jobs[j].status, jobs'[j].status>> \in StatusSteps]_vars

\* C2: a delivery goes on to process the job only if it performed the
\* queued -> running transition itself; a delivery that finds the job
\* already claimed or finished stops.
C2_OnlyQueuedIsClaimed ==
    [][\A t \in Threads :
          (wk[t].pc = "mark" /\ wk'[t].pc # "mark") =>
              (jobs[wk[t].job_id].status = "queued" \/ wk'[t].pc = "idle")]_vars

PredictionFields == {"predicted_label", "confidence", "top_k", "price_per_kg", "total_price"}

\* C3: a done job has no error message and an error job has no prediction
\* fields.
C3_OutcomeExclusive ==
    \A j \in DOMAIN jobs :
        /\ jobs[j].status = "done" => jobs[j].error = None
        /\ jobs[j].status = "error" => \A f \in PredictionFields : jobs[j][f] = None

\* C4: model_id / model_revision of a job row never change once they are
\* non-null.
C4_ModelIdentityImmutable ==
    [][\A j \in DOMAIN jobs :
          /\ jobs[j].model_id # None => jobs'[j].model_id = jobs[j].model_id
          /\ jobs[j].model_revision # None => jobs'[j].model_revision = jobs[j].model_revision]_vars

\* C5: the identity written with a done job is the identity of the model
\* handle that task used for the prediction.
C5_RecordedIdentityIsUsedModel ==
    [][\A t \in Threads :
          (wk[t].pc = "write_done" /\ wk'[t].pc = "idle") =>
              /\ jobs'[wk[t].job_id].model_id = Some(wk[t].model[1].model_id)
              /\ jobs'[wk[t].job_id].model_revision = Some(wk[t].model[1].model_revision)]_vars

\* C6: confirmed_label of a job that is not done does not change.
C6_ConfirmNeedsDone ==
    [][\A j \in DOMAIN jobs :
          jobs[j].status # "done" => jobs'[j].confirmed_label = jobs[j].confirmed_label]_vars

\* C7: confirming label L on a done job sets its confirmed_label to L, and a
\* step that changes the confirmed_label of a done job changes no other field
\* of that job, no other job and nothing else.
C7_ConfirmFrame ==
    [][\A j \in DOMAIN jobs :
          jobs[j].status = "done" =>
              /\ \A L \in ConfirmLabels :
                    ConfirmLabel(j, L) => jobs'[j].confirmed_label = Some(L)
              /\ jobs'[j].confirmed_label # jobs[j].confirmed_label =>
                    /\ \E L \in ConfirmLabels :
                          jobs' = [jobs EXCEPT ![j].confirmed_label = Some(L)]
                    /\ UNCHANGED Others]_vars

C7_Witness ==
    \E j, i \in DOMAIN jobs :
        /\ i # j
        /\ jobs[j].status = "done"
        /\ jobs[j].confirmed_label # None
        /\ jobs[i].status # "queued"

Invalid(sub) == sub[1] = EmptyImage \/ (sub[2] # None /\ sub[2][1] <= 0) \/ sub[3] < 1

NoInvalidInput ==
    /\ \A j \in DOMAIN jobs :
          /\ jobs[j].image # EmptyImage
          /\ jobs[j].weight_kg # None => jobs[j].weight_kg[1] > 0
    /\ \A m \in sending \cup BagToSet(queue) : m.top_k >= 1

\* C8: a submission with an empty image, a weight <= 0 or top_k < 1 creates
\* no row and sends no message: the job table, the pending sends and the
\* queue stay as they were, so no row or message ever carries such input.
C8_RejectionChangesNothing ==
    /\ []NoInvalidInput
    /\ [][\A sub \in Submissions :
            (Invalid(sub) /\ Predict(sub[1], sub[2], sub[3])) =>
                UNCHANGED <<jobs, sending, queue>>]_vars

C8_Witness ==
    /\ Cardinality(DOMAIN jobs) = 1
    /\ queue # EmptyBag
    /\ ENABLED (\E sub \in Submissions : Invalid(sub) /\ Predict(sub[1], sub[2], sub[3]))

Loading(p) == {t \in Threads : procOf[t] = p /\ wk[t].pc = "loading"}

\* C9: in one worker process at most one model load is in flight.
C9_SingleFlight == \A p \in Procs : Cardinality(Loading(p)) <= 1

WholeEntry(s) ==
    IF s.model = None THEN s = EmptyState
    ELSE /\ s.model[1] \in Hub
         /\ s.loaded_at # None
         /\ s = UpdatedState(s.model[1], LoadModel(s.model[1]), s.loaded_at[1])

\* C10: the cache entry of a process is either the initial empty entry or
\* exactly what one successful load produced for the identity it names; a
\* failed load leaves it untouched, and it changes only when a load of that
\* process succeeds.
C10_CacheEntryWhole ==
    /\ [](\A p \in Procs : WholeEntry(MODEL_STATE[p]))
    /\ [][\A p \in Procs :
            MODEL_STATE'[p] # MODEL_STATE[p] =>
                \E t \in Threads :
                    /\ procOf[t] = p
                    /\ wk[t].pc = "loading" /\ wk'[t].pc = "get_model"
                    /\ wk[t].target[1] \in Hub
                    /\ MODEL_STATE'[p].model = Some(wk[t].target[1])]_vars
    /\ [][\A t \in Threads :
            (wk[t].pc = "loading" /\ wk'[t].pc = "except") => MODEL_STATE' = MODEL_STATE]_vars

C10_Witness ==
    \E t \in Threads :
        /\ wk[t].pc = "except"
        /\ wk[t].exc = "model unavailable"
        /\ MODEL_STATE[procOf[t]].model # None

-----------------------------------------------------------------------------
(* Model cache across registry changes *)

Checking == {"chk_model", "chk_id", "chk_rev"}
AfterEnsure == {"get_model", "infer", "bind_id", "write_done"}

\* The cache entry of the process of t holds a model under the identity t read
\* from the registry.
CacheMatches(t) ==
    /\ MODEL_STATE[procOf[t]].model # None
    /\ MODEL_STATE[procOf[t]].model_id = Some(wk[t].target[1].model_id)
    /\ MODEL_STATE[procOf[t]].model_revision = Some(wk[t].target[1].model_revision)

\* C11: on a worker that handles one task at a time, (a) a task gets past
\* ensure_model only with the cache entry holding the very identity it read
\* from the registry, so a task whose target cannot be loaded never reaches
\* the done write with the old model; (b) a failed load leaves the entry as it
\* was and the task's next write is status error with a message; (c) a task
\* whose target is the identity still cached passes ensure_model without a
\* load and without touching the entry.
C11_FailedReloadKeepsOldEntry ==
    /\ [](wk["t1"].pc \in AfterEnsure =>
             /\ wk["t1"].target[1] \in Hub
             /\ CacheMatches("t1")
             /\ MODEL_STATE[procOf["t1"]].model = Some(wk["t1"].target[1]))
    /\ [][(wk["t1"].pc = "loading" /\ wk'["t1"].pc = "except") =>
            MODEL_STATE' = MODEL_STATE]_vars
    /\ [][(wk["t1"].pc = "except" /\ wk'["t1"].pc # "except") =>
            /\ jobs'[wk["t1"].job_id].status = "error"
            /\ jobs'[wk["t1"].job_id].error # None
            /\ MODEL_STATE' = MODEL_STATE]_vars
    /\ [][(wk["t1"].pc \in Checking /\ CacheMatches("t1")) =>
            /\ wk'["t1"].pc # "loading"
            /\ MODEL_STATE' = MODEL_STATE]_vars

\* The third delivery of a job is served from the entry the only successful
\* load left, and the job carries the message of a load that failed.
C11_Witness ==
    /\ deliveries = MaxDeliveriesCache
    /\ wk["t1"].pc = "get_model"
    /\ CacheMatches("t1")
    /\ MODEL_STATE[procOf["t1"]].loaded_at = Some(0)
    /\ jobs[wk["t1"].job_id].error = Some("model unavailable")
    /\ jobs[wk["t1"].job_id].predicted_label # None

\* C12: a step that changes the registry changes nothing else, in particular
\* no cache entry; the cache entry of a worker changes only when a load run
\* by a task of that worker succeeds, and the registry is not written by that
\* step; when ensure_model returns on a worker that handles one task at a
\* time, the entry holds a model under the identity the call read from the
\* registry.
C12_ReloadIsLazy ==
    /\ [][registry' # registry =>
            UNCHANGED <<jobs, sending, queue, deliveries, MODEL_STATE, wk, clock, procOf>>]_vars
    /\ [][\A p \in Procs :
            MODEL_STATE'[p] # MODEL_STATE[p] =>
                /\ registry' = registry
                /\ \E t \in Threads :
                      /\ procOf[t] = p
                      /\ wk[t].pc = "loading" /\ wk'[t].pc = "get_model"]_vars
    /\ [][\A t \in Threads :
            (wk[t].pc # "get_model" /\ wk'[t].pc = "get_model") =>
                /\ MODEL_STATE'[procOf[t]].model # None
                /\ MODEL_STATE'[procOf[t]].model_id = Some(wk'[t].target[1].model_id)
                /\ MODEL_STATE'[procOf[t]].model_revision =
                       Some(wk'[t].target[1].model_revision)]_vars

\* ensure_model has just returned after the second load of the worker, and the
\* admin has changed the registry again since the call read it.
C12_Witness ==
    /\ wk["t1"].pc = "get_model"
    /\ CacheMatches("t1")
    /\ MODEL_STATE[procOf["t1"]].loaded_at = Some(1)
    /\ registry # None
    /\ registry[1] # wk["t1"].target[1]

-----------------------------------------------------------------------------
(* The inference executor *)

\* A task writing the done row.
WritesDone(t) == wk[t].pc = "write_done" /\ wk'[t].pc = "idle"

\* The probability vector the task of t got from model.predict.
ProbsOf(t) == ModelPredict(wk[t].model[1], wk[t].row[1].image)

\* max(1, min(requested, 5, L)) for requested >= 1 and L >= 1.
ExpectedLength(requested, L) ==
    IF requested >= 5 /\ L >= 5 THEN 5
    ELSE IF requested >= L THEN L
    ELSE requested

\* C13: the top_k list written with status done has max(1, min(requested
\* top_k, 5, L)) entries, L being the length of the model's output vector; a
\* done job always has such a list, of 1 to 5 entries.
C13_TopKLength ==
    /\ [](\A j \in DOMAIN jobs :
             jobs[j].status = "done" =>
                 /\ jobs[j].top_k # None
                 /\ Len(jobs[j].top_k[1]) \in 1..TopKCap)
    /\ [][\A t \in Threads :
            WritesDone(t) =>
                /\ jobs'[wk[t].job_id].status = "done"
                /\ Len(jobs'[wk[t].job_id].top_k[1]) =
                       ExpectedLength(wk[t].top_k, Len(ProbsOf(t)))]_vars

\* A done job that asked for 6 entries of a six-class model and has 5.
C13_Witness ==
    \E j \in DOMAIN jobs :
        /\ jobs[j].status = "done"
        /\ jobs[j].weight_kg = Some(2)
        /\ jobs[j].model_revision = Some("v2")
        /\ Len(jobs[j].top_k[1]) = TopKCap

\* Number of class indices that come before index i when the indices are
\* listed by descending probability, the smaller index first among equals.
Rank(probs, i) ==
    Cardinality({j \in 0..(Len(probs) - 1) :
                    \/ probs[j + 1] > probs[i + 1]
                    \/ (probs[j + 1] = probs[i + 1] /\ j < i)})

\* The first k indices of that listing.
TopIndices(probs, k) ==
    [n \in 1..k |-> CHOOSE i \in 0..(Len(probs) - 1) : Rank(probs, i) = n - 1]

\* C14: the indices the executor selects are the k most probable ones in
\* descending order of probability, the smaller index first among indices of
\* equal probability.
C14_TopKOrder ==
    [][\A t \in Threads, order \in Orders :
          (Infer(t, order) /\ wk'[t].pc = "bind_id") =>
              Selected(order, ClampK(wk[t].top_k, Len(ProbsOf(t)))) =
                  TopIndices(ProbsOf(t), ClampK(wk[t].top_k, Len(ProbsOf(t))))]_vars

-----------------------------------------------------------------------------
(* Progress of classify *)

\* C15: under SpecLive, every job in status running eventually is in status
\* done or error; a job in status error carries an error message; a task
\* thread that took a message eventually is free for the next one.
C15_RunningEnds ==
    /\ \A j \in JobIds :
          (j \in DOMAIN jobs /\ jobs[j].status = "running") ~>
              (j \in DOMAIN jobs /\ jobs[j].status \in {"done", "error"})
    /\ [](\A j \in DOMAIN jobs : jobs[j].status = "error" => jobs[j].error # None)
    /\ (wk["t1"].pc # "idle") ~> (wk["t1"].pc = "idle")

\* The worker is processing the second job after the first ended in error on
\* an undecodable image.
C15_Witness ==
    \E j \in DOMAIN jobs :
        /\ jobs[j].status = "error"
        /\ jobs[j].error = Some("cannot identify image file")
        /\ wk["t1"].pc = "infer"
        /\ wk["t1"].job_id # j

-----------------------------------------------------------------------------
(* Terminal writes *)

Payload == PredictionFields \cup {"latency_ms"}

\* A task executing its done UPDATE or its error UPDATE.
TerminalWrite(t) == wk[t].pc \in {"write_done", "except"} /\ wk'[t].pc = "idle"

\* C16: a terminal write of a task changes the job table only if the job is
\* in status running when it executes; a step taken while a job is done
\* neither changes its prediction payload nor makes it an error.
C16_TerminalWriteGuarded ==
    /\ [][\A t \in Threads :
            (TerminalWrite(t) /\ jobs[wk[t].job_id].status # "running") => jobs' = jobs]_vars
    /\ [][\A j \in DOMAIN jobs :
            jobs[j].status = "done" =>
                /\ \A f \in Payload : jobs'[j][f] = jobs[j][f]
                /\ jobs'[j].status # "error"]_vars

-----------------------------------------------------------------------------
(* Submission and the queue *)

\* Messages for job j in the queue, copies counted.
InQueue(q, j) ==
    LET ms == {m \in BagToSet(q) : m.job_id = j}
    IN BagCardinality([m \in ms |-> q[m]])

\* Requests of job j that committed the row and have not sent the task yet.
Pending(snd, j) == {m \in snd : m.job_id = j}

MessagesHaveRows ==
    /\ \A m \in sending \cup BagToSet(queue) : m.job_id \in DOMAIN jobs
    /\ \A j \in DOMAIN jobs : InQueue(queue, j) + Cardinality(Pending(sending, j)) <= 1

\* C17: every message in the queue, and every task about to be sent, names a
\* job that has a row, and there is at most one of them per job; a row appears
\* with status queued under an id that had no row, with no message of it in
\* the queue yet, and leaves the other rows as they are; rows are never
\* removed; a message enters the queue only by the send of the request that
\* inserted its row, and that send puts exactly one copy there.
C17_RowBeforeMessage ==
    /\ []MessagesHaveRows
    /\ [][\A j \in JobIds :
            /\ j \in DOMAIN jobs => j \in DOMAIN jobs'
            /\ (j \notin DOMAIN jobs /\ j \in DOMAIN jobs') =>
                  /\ jobs'[j].status = "queued"
                  /\ InQueue(queue', j) = 0
                  /\ Cardinality(Pending(sending', j)) = 1
                  /\ \A i \in DOMAIN jobs : jobs'[i] = jobs[i]
            /\ InQueue(queue', j) > InQueue(queue, j) =>
                  /\ j \in DOMAIN jobs
                  /\ InQueue(queue, j) = 0 /\ InQueue(queue', j) = 1
                  /\ Pending(sending, j) # {} /\ Pending(sending', j) = {}]_vars
    /\ [][\A m \in sending : PredictSend(m, TRUE) => InQueue(queue', m.job_id) = 1]_vars

\* Two jobs have their message in the queue, the first one still there after
\* a delivery.
C17_Witness ==
    /\ DOMAIN jobs = {1, 2}
    /\ InQueue(queue, 1) = 1
    /\ InQueue(queue, 2) = 1
    /\ jobs[1].status # "queued"
    /\ jobs[2].status = "queued"

-----------------------------------------------------------------------------
(* Cache hits *)

\* C18: a task in the if-condition of ensure_model whose target is the
\* identity of the model its process has cached takes its step without
\* starting a load and without changing the entry; a task starts a load only
\* from that condition and only when, at that moment, the entry has no model
\* or an identity other than the target.
C18_LoadOnlyOnMismatch ==
    /\ [][\A t \in Threads :
            (wk[t].pc \in Checking /\ CacheMatches(t) /\ wk'[t] # wk[t]) =>
                /\ wk'[t].pc \in {"chk_id", "chk_rev", "get_model"}
                /\ MODEL_STATE' = MODEL_STATE]_vars
    /\ [][\A t \in Threads :
            (wk[t].pc # "loading" /\ wk'[t].pc = "loading") =>
                /\ wk[t].pc \in Checking
                /\ ~CacheMatches(t)]_vars

\* The second delivery of a job has passed ensure_model on the entry that
\* the first delivery loaded in the same process.
C18_Witness ==
    \E t \in Threads :
        /\ wk[t].pc = "get_model"
        /\ CacheMatches(t)
        /\ \A u \in Threads : procOf[u] = procOf[t] /\ (u # t => wk[u].pc = "idle")
        /\ deliveries = MaxDeliveries
        /\ MODEL_STATE[procOf[t]].loaded_at = Some(0)
        /\ jobs[wk[t].job_id].predicted_label # None
        /\ jobs[wk[t].job_id].error = None

-----------------------------------------------------------------------------
(* Admin reload *)

\* The identity a reload asks for: each override when given, else the value
\* current before the call.
Requested(reg, payload_id, payload_revision) ==
    Ident(IF payload_id # None THEN payload_id[1] ELSE FetchRegistry(reg).model_id,
          IF payload_revision # None THEN payload_revision[1]
          ELSE FetchRegistry(reg).model_revision)

\* C19: in every reachable state, a reload request with the valid admin
\* token leaves the registry such that the next ensure_model targets the
\* requested identity, and the registry row holds it when there was a row.
C19_ReloadSetsRegistry ==
    \A req \in ReloadRequests :
        req[1] = ADMIN_TOKEN =>
            LET requested == Requested(registry, req[2], req[3])
                hadRow == registry # None
            IN ENABLED (/\ ReloadModel(req[1], req[2], req[3])
                        /\ FetchRegistry(registry') = requested
                        /\ hadRow => registry' = Some(requested))

-----------------------------------------------------------------------------
(* Labels *)

\* The label class_labels.json of snapshot ident registers for class index i,
\* or the string form of i when the file is absent or has no entry for i.
FileLabel(ident, i) ==
    IF LabelFile(ident) # None /\ \E p \in LabelFile(ident)[1] : p[1] = i
    THEN (CHOOSE p \in LabelFile(ident)[1] : p[1] = i)[2]
    ELSE ToString(i)

\* C20: on a worker that handles one task at a time, each pair the executor
\* emits for a selected class index i carries the label the label file of the
\* model registers for i, or the string form of i when it registers none,
\* with the probability of i; predicted_label and confidence are the first
\* pair.
C20_LabelsByIndex ==
    [][\A order \in Orders :
          (Infer("t1", order) /\ wk'["t1"].pc = "bind_id") =>
              LET probs == ProbsOf("t1")
                  indices == Selected(order, ClampK(wk["t1"].top_k, Len(probs)))
                  out == wk'["t1"].out[1]
              IN /\ out.top_k =
                       Some([n \in 1..Len(indices) |->
                               [label |-> FileLabel(wk["t1"].model[1], indices[n]),
                                confidence |-> probs[indices[n] + 1]]])
                 /\ out.predicted_label = Some(out.top_k[1][1].label)
                 /\ out.confidence = Some(out.top_k[1][1].confidence)]_vars

-----------------------------------------------------------------------------
(* Pricing *)

\* The price table's entry for label, or the process default price when the
\* table has none.
TableOrDefault(label) ==
    LET entries == {p \in PriceTable : p[1] = label}
    IN IF entries = {} THEN DEFAULT_PRICE_PER_KG ELSE (CHOOSE p \in entries : TRUE)[2]

\* C21: a done job with a declared weight has price_per_kg equal to the price
\* table's entry for its predicted_label, or to the default price when the
\* table has no entry, and total_price = price_per_kg * weight; a done job
\* without a declared weight has both price fields null.
C21_Pricing ==
    \A j \in DOMAIN jobs :
        jobs[j].status = "done" =>
            IF jobs[j].weight_kg # None
            THEN /\ jobs[j].price_per_kg = Some(TableOrDefault(jobs[j].predicted_label[1]))
                 /\ jobs[j].total_price =
                        Some(TableOrDefault(jobs[j].predicted_label[1]) * jobs[j].weight_kg[1])
            ELSE jobs[j].price_per_kg = None /\ jobs[j].total_price = None

-----------------------------------------------------------------------------
(* Unknown job ids *)

\* C22: for a job id that has no row, reading the result and confirming a
\* label are answered with not-found and a confirmation changes nothing; a
\* delivery of a message for such an id changes no row and leaves the task
\* thread free; reading a result changes nothing, whether the row exists or
\* not; no step other than a submission creates a row.
C22_UnknownJobId ==
    /\ [](\A j \in JobIds \ DOMAIN jobs :
             /\ ResultResponse(j) = None
             /\ \A L \in ConfirmLabels : ConfirmResponse(j, L) = None)
    /\ [][\A j \in JobIds \ DOMAIN jobs, L \in ConfirmLabels :
            ConfirmLabel(j, L) => UNCHANGED vars]_vars
    /\ [][\A j \in JobIds : Result(j) => UNCHANGED vars]_vars
    /\ [][\A t \in Threads, m \in BagToSet(queue), acked \in BOOLEAN :
            (m.job_id \notin DOMAIN jobs /\ Deliver(t, m, acked)) =>
                /\ jobs' = jobs
                /\ wk'[t] = Idle
                /\ UNCHANGED <<registry, sending, MODEL_STATE, clock>>]_vars
    /\ [][DOMAIN jobs' # DOMAIN jobs =>
            \E sub \in Submissions : Predict(sub[1], sub[2], sub[3])]_vars

\* The stray message has been delivered and acknowledged, the task thread is
\* free again, and the only row is the one a submission created.
C22_Witness ==
    /\ ~BagIn(StrayMessage, queue)
    /\ deliveries = 1
    /\ wk["t1"] = Idle
    /\ DOMAIN jobs = {1}
    /\ jobs[1].status = "queued"

====
